---- MODULE Spec2Model ----
(***************************************************************************)
(* Session lifecycle of the Learning in Depth chatbot (learnindeep.py).    *)
(* One script run is one step: the run is triggered by exactly one widget  *)
(* (the "Start Learning" button, the "Reset Chat" button or the chat       *)
(* input) and executes that widget's handler to completion.  The outcome   *)
(* of ChatGroq(...) and of llm.invoke(...) is chosen by the environment.   *)
(***************************************************************************)
EXTENDS Integers, Sequences, FiniteSets, TLC

VARIABLES
    session_state,  \* st.session_state: messages, topic, started, llm
    event,          \* the widget that triggered the last run, with its inputs
    invoked,        \* whether the last run reached llm.invoke on a client
    exc,            \* text of the exception caught in the last run, or None
    st_error,       \* the st.error banners shown by the last run
    okTurns         \* history: successful turns since the last successful
                    \* start, -1 once anything else happened since then

vars == <<session_state, event, invoked, exc, st_error, okTurns>>

\* ---- bounds ----
MaxLen == 7

\* ---- values ----
\* Python None: the empty tuple, so that it compares with handles and texts
None == <<>>

Keys == {"", "k1"}
Topics == {"", "t1", "t2"}
Levels == {"Complete Beginner", "Advanced"}
Prompts == {<<"p1">>, <<"p2">>}
Replies == {<<"r1">>}

LEARNING_SYSTEM_PROMPT == <<"LEARNING_SYSTEM_PROMPT">>

\* Texts of exceptions the completion client can raise, as token sequences.
ErrorTexts ==
    { <<"Error", "code:", "401">>,
      <<"INVALID_API_KEY">>,
      <<"Error", "code:", "429">> }

\* str(e) of calling .invoke on None
AttributeErrorText == <<"NoneType", "has", "no", "attribute", "invoke">>

\* ---- messages ----
SystemMessage(content) == [type |-> "system", content |-> content]
HumanMessage(content) == [type |-> "human", content |-> content]
AIMessage(content) == [type |-> "ai", content |-> content]

InitialContent(topic, knowledge_level) ==
    <<"I want to learn", topic, "My current knowledge level is:", knowledge_level>>

ChatGroq(api_key) == <<"ChatGroq", api_key>>

\* ---- error text matching ----
LowerTok(tok) == IF tok = "INVALID_API_KEY" THEN "invalid_api_key" ELSE tok

Lower(text) == [i \in 1..Len(text) |-> LowerTok(text[i])]

Contains(text, tok) == \E i \in 1..Len(text) : text[i] = tok

IsAuthError(e) == Contains(Lower(e), "invalid_api_key") \/ Contains(e, "401")

\* ---- Start Learning handler, piece by piece ----
\* the banners of the input checks; empty when both inputs are present
MissingInputKeyOnly(api_key, topic) ==
    IF api_key = "" THEN <<"Please enter API key">> ELSE <<>>

MissingInputTopicOnly(api_key, topic) ==
    IF topic = "" THEN <<"Please enter a topic">> ELSE <<>>

MissingInput(api_key, topic) ==
    IF api_key = "" THEN <<"Please enter API key">>
    ELSE IF topic = "" THEN <<"Please enter a topic">>
    ELSE <<>>

StartBegin(ss, topic) ==
    [ss EXCEPT !.topic = topic, !.messages = <<>>, !.started = TRUE]

StartClient(ss, api_key) == [ss EXCEPT !.llm = ChatGroq(api_key)]

StartMessages(ss, topic, knowledge_level) ==
    [ss EXCEPT !.messages =
        << SystemMessage(LEARNING_SYSTEM_PROMPT),
           HumanMessage(InitialContent(topic, knowledge_level)) >>]

AppendReplyDropped(ss, content) == ss

AppendReply(ss, content) ==
    [ss EXCEPT !.messages = Append(@, AIMessage(content))]

StartExceptKeepsClient(ss) == [ss EXCEPT !.started = FALSE]

StartExceptKeepsStarted(ss) == [ss EXCEPT !.llm = None]

StartExcept(ss) == [ss EXCEPT !.started = FALSE, !.llm = None]

ExceptBanners(e) ==
    IF IsAuthError(e) THEN <<"Error", "Invalid API Key!">> ELSE <<"Error">>

\* ---- Reset Chat handler ----
ResetStateKeepsTopic(ss) ==
    [ss EXCEPT !.messages = <<>>, !.started = FALSE, !.llm = None]

ResetStateKeepsClient(ss) ==
    [ss EXCEPT !.messages = <<>>, !.topic = "", !.started = FALSE]

ResetState(ss) ==
    [ss EXCEPT !.messages = <<>>, !.topic = "", !.started = FALSE, !.llm = None]

\* ---- chat input handler ----
AppendPromptReplacing(ss, prompt) ==
    [ss EXCEPT !.messages =
        IF Len(@) > 0 /\ @[Len(@)].type = "human"
        THEN [@ EXCEPT ![Len(@)] = HumanMessage(prompt)]
        ELSE Append(@, HumanMessage(prompt))]

AppendPrompt(ss, prompt) ==
    [ss EXCEPT !.messages = Append(@, HumanMessage(prompt))]

\* Exceptions llm.invoke can raise on the handle held by the session.
InvokeErrors(ss) ==
    IF ss.llm = None THEN {AttributeErrorText} ELSE ErrorTexts

\* ---- events ----
NoEvent ==
    [button |-> "none", api_key |-> "", topic |-> "",
     knowledge_level |-> "", prompt |-> <<>>]

StartEvent(api_key, topic, knowledge_level) ==
    [NoEvent EXCEPT !.button = "start", !.api_key = api_key, !.topic = topic,
                    !.knowledge_level = knowledge_level]

ResetEvent == [NoEvent EXCEPT !.button = "reset"]

ChatEvent(prompt) == [NoEvent EXCEPT !.button = "chat", !.prompt = prompt]

\* ---- state machine ----
Init ==
    /\ session_state =
         [messages |-> <<>>, topic |-> "", started |-> FALSE, llm |-> None]
    /\ event = NoEvent
    /\ invoked = FALSE
    /\ exc = None
    /\ st_error = <<>>
    /\ okTurns = -1

\* "Start Learning" with an empty key or topic: an error banner only.
StartMissingInput ==
    \E api_key \in Keys, topic \in Topics, knowledge_level \in Levels :
        /\ MissingInput(api_key, topic) # <<>>
        /\ event' = StartEvent(api_key, topic, knowledge_level)
        /\ st_error' = MissingInput(api_key, topic)
        /\ invoked' = FALSE
        /\ exc' = None
        /\ okTurns' = -1
        /\ UNCHANGED session_state

\* "Start Learning" where ChatGroq(...) raises.
StartConstructFails ==
    \E api_key \in Keys, topic \in Topics, knowledge_level \in Levels,
       e \in ErrorTexts :
        /\ MissingInput(api_key, topic) = <<>>
        /\ event' = StartEvent(api_key, topic, knowledge_level)
        /\ session_state' = StartExcept(StartBegin(session_state, topic))
        /\ invoked' = FALSE
        /\ exc' = e
        /\ st_error' = ExceptBanners(e)
        /\ okTurns' = -1

\* "Start Learning" where llm.invoke(...) raises.
StartInvokeFails ==
    \E api_key \in Keys, topic \in Topics, knowledge_level \in Levels,
       e \in ErrorTexts :
        /\ MissingInput(api_key, topic) = <<>>
        /\ event' = StartEvent(api_key, topic, knowledge_level)
        /\ session_state' =
             StartExcept(
               StartMessages(
                 StartClient(StartBegin(session_state, topic), api_key),
                 topic, knowledge_level))
        /\ invoked' = TRUE
        /\ exc' = e
        /\ st_error' = ExceptBanners(e)
        /\ okTurns' = -1

\* "Start Learning" where the first reply arrives.
StartSucceeds ==
    \E api_key \in Keys, topic \in Topics, knowledge_level \in Levels,
       reply \in Replies :
        /\ MissingInput(api_key, topic) = <<>>
        /\ event' = StartEvent(api_key, topic, knowledge_level)
        /\ session_state' =
             AppendReply(
               StartMessages(
                 StartClient(StartBegin(session_state, topic), api_key),
                 topic, knowledge_level),
               reply)
        /\ invoked' = TRUE
        /\ exc' = None
        /\ st_error' = <<>>
        /\ okTurns' = 0

\* "Reset Chat".
ResetChat ==
    /\ event' = ResetEvent
    /\ session_state' = ResetState(session_state)
    /\ invoked' = FALSE
    /\ exc' = None
    /\ st_error' = <<>>
    /\ okTurns' = -1

\* Chat input where the reply arrives.
ChatSucceeds ==
    \E prompt \in Prompts, reply \in Replies :
        /\ session_state.started
        /\ session_state.llm # None
        /\ Len(session_state.messages) + 2 <= MaxLen
        /\ event' = ChatEvent(prompt)
        /\ session_state' = AppendReply(AppendPrompt(session_state, prompt), reply)
        /\ invoked' = TRUE
        /\ exc' = None
        /\ st_error' = <<>>
        /\ okTurns' = IF okTurns >= 0 THEN okTurns + 1 ELSE -1

\* Chat input where llm.invoke(...) raises.
ChatFails ==
    \E prompt \in Prompts, e \in InvokeErrors(session_state) :
        /\ session_state.started
        /\ Len(session_state.messages) + 2 <= MaxLen
        /\ event' = ChatEvent(prompt)
        /\ session_state' = AppendPrompt(session_state, prompt)
        /\ invoked' = (session_state.llm # None)
        /\ exc' = e
        /\ st_error' = ExceptBanners(e)
        /\ okTurns' = -1

Next ==
    \/ StartMissingInput
    \/ StartConstructFails
    \/ StartInvokeFails
    \/ StartSucceeds
    \/ ResetChat
    \/ ChatSucceeds
    \/ ChatFails

Spec == Init /\ [][Next]_vars

\* ---- shorthands for the properties ----
Cleared == [messages |-> <<>>, topic |-> "", started |-> FALSE, llm |-> None]

SystemPositions(msgs) == {i \in 1..Len(msgs) : msgs[i].type = "system"}

IsPrefix(s, t) == Len(s) <= Len(t) /\ SubSeq(t, 1, Len(s)) = s

\* ---- properties ----

\* C1: a Start Learning run that raised (client construction or completion
\* request) leaves the session not started with an empty transcript.
C1_FailedStartEmptiesTranscript ==
    (event.button = "start" /\ exc # None)
        => (~session_state.started /\ session_state.messages = <<>>)

\* C2 (as stated): after a successful start and N successful turns with
\* nothing else in between, the transcript has length 2 + 2N.
C2_LengthTwoPlus ==
    okTurns >= 0 => Len(session_state.messages) = 2 + 2 * okTurns

\* C2 (amended): after a successful start and N successful turns with
\* nothing else in between, the transcript has length 3 + 2N.
C2_LengthThreePlus ==
    okTurns >= 0 => Len(session_state.messages) = 3 + 2 * okTurns

C2_Witness ==
    okTurns = 2 /\ Len(session_state.messages) = 7 /\ event.button = "chat"

\* C3 (as stated): Start Learning with an empty key issues no completion
\* request and leaves started = false.
C3_EmptyKeyLeavesNotStarted ==
    (event.button = "start" /\ event.api_key = "")
        => (~invoked /\ ~session_state.started)

\* C3 (amended): Start Learning with an empty key issues no completion
\* request and leaves started as it was before the run.
C3_EmptyKeyKeepsStarted ==
    [][(event'.button = "start" /\ event'.api_key = "")
        => (~invoked' /\ session_state'.started = session_state.started)]_vars

C3_Witness ==
    /\ event.button = "start" /\ event.api_key = "" /\ event.topic # ""
    /\ ~invoked
    /\ session_state.started

\* C4 (as stated): whenever a completion request fails with an
\* authentication error, from Start Learning or from the chat input, the
\* session is afterwards not started and holds no client.
C4_AuthFailureResets ==
    (invoked /\ exc # None /\ IsAuthError(exc))
        => (~session_state.started /\ session_state.llm = None)

\* C4 (amended): a completion request of Start Learning that fails with an
\* authentication error leaves the session not started with no client; one
\* of the chat input leaves started and the client as they were.
C4_AuthFailureResetsOnStartOnly ==
    [][(invoked' /\ exc' # None /\ IsAuthError(exc'))
        => IF event'.button = "start"
           THEN ~session_state'.started /\ session_state'.llm = None
           ELSE /\ session_state'.started = session_state.started
                /\ session_state'.llm = session_state.llm]_vars

C4_Witness ==
    /\ event.button = "start" /\ invoked
    /\ exc # None /\ IsAuthError(exc)
    /\ session_state.llm = None

\* C5: the transcript holds at most one system message, it is the first
\* element, and it is there only while a topic is active.
C5_SystemMessageInvariant ==
    /\ Cardinality(SystemPositions(session_state.messages)) <= 1
    /\ SystemPositions(session_state.messages) \subseteq {1}
    /\ SystemPositions(session_state.messages) # {} => session_state.started

\* C6: a chat run keeps every earlier message and appends the user message
\* right after them; when its request fails that user message is the last
\* element (no assistant message, no rollback).
C6_NoRollback ==
    [][event'.button = "chat"
        => /\ IsPrefix(session_state.messages, session_state'.messages)
           /\ Len(session_state'.messages) > Len(session_state.messages)
           /\ session_state'.messages[Len(session_state.messages) + 1]
                = HumanMessage(event'.prompt)
           /\ exc' # None =>
                Len(session_state'.messages) = Len(session_state.messages) + 1
      ]_vars

\* a failed turn's user message followed by the next turn's user message
C6_Witness ==
    /\ event.button = "chat"
    /\ \E i \in 1..(Len(session_state.messages) - 1) :
          /\ session_state.messages[i].type = "human"
          /\ session_state.messages[i + 1].type = "human"

\* C7: after Reset Chat the transcript is empty, the topic is the empty
\* string, started is false, no client remains and no error was raised.
C7_ResetClears ==
    event.button = "reset"
        => (session_state = Cleared /\ exc = None /\ st_error = <<>>)

C7_Witness == event.button = "reset" /\ session_state = Cleared

\* C8: a Start Learning run that fails with a credential error ends with
\* started = false and no client, whatever the state before.
C8_CredentialFailureOnStart ==
    [][(event'.button = "start" /\ exc' # None /\ IsAuthError(exc'))
        => (~session_state'.started /\ session_state'.llm = None)]_vars

C8_Witness ==
    /\ event.button = "start" /\ exc # None /\ IsAuthError(exc)
    /\ ~session_state.started

\* C9: Start Learning with an empty topic or an empty key issues no
\* completion request and changes nothing in the session.
C9_RejectedStartChangesNothing ==
    [][(event'.button = "start" /\ (event'.api_key = "" \/ event'.topic = ""))
        => (~invoked' /\ session_state' = session_state)]_vars

C9_Witness ==
    /\ event.button = "start" /\ event.topic = "" /\ event.api_key # ""
    /\ session_state.started /\ Len(session_state.messages) > 3

\* C10: between runs started holds exactly when a client exists, so every
\* chat run issues its request on an existing client.
C10_StartedIffClient ==
    /\ session_state.started <=> session_state.llm # None
    /\ event.button = "chat" => invoked

C10_Witness ==
    /\ event.button = "chat" /\ invoked /\ exc # None
    /\ session_state.started /\ session_state.llm # None
====
